---------------------------- MODULE Spec2Model ----------------------------
(***************************************************************************)
(* Health-aware authoritative DNS zone: the zone updater                   *)
(* (dns_server_zone_updater.py), its background worker and start()/stop()  *)
(* (identical in dns_server_zone_updater_threated.py), and readers of the  *)
(* versioned zone (dns_server_udp_handler.py).                             *)
(*                                                                         *)
(* The dnspython versioned zone is modelled by its contract: a writer      *)
(* transaction publishes all of its changes in one step when its scope     *)
(* exits normally and publishes nothing when its scope exits with an       *)
(* exception; a reader sees the version published when it was opened.      *)
(* Time is the wall clock in whole seconds.                                *)
(***************************************************************************)
EXTENDS Integers, Sequences, FiniteSets, TLC

(***************************************************************************)
(* Bounds and inputs                                                       *)
(***************************************************************************)
MinInterval == 1          \* operator-supplied min_interval (seconds)
ConnectionTimeout == 2    \* connection_timeout (seconds), the front-end's default
MaxThreads == 2           \* worker threads ever created
MaxTicks == 1             \* clock advances in one behaviour
StartTime == 1            \* wall clock at construction (after the epoch)
HealthPort == 8080
MaxAliases == 2           \* alias zones a configuration supplies
MaxSerialTicks == 4       \* seconds that pass while the SOA serial source is in use
MaxMaxInterval == 10      \* largest max_interval the timings are derived from
MaxMinInterval == 10      \* largest operator-supplied min_interval tried
MaxConnectionTimeout == 3 \* largest connection_timeout tried

DELTA_PER_RECORD_MANAGEMENT == 1
DELTA_PER_RECORD_SIGN == 2
STOP_JOIN_EXTRA_TIMEOUT == 1

Apex == "@"
NameServers == {1}

\* config.a_records: two subdomains, three (ip, health_port) pairs,
\* all initially unhealthy.  IPs are numbered.
ConfigIps == << {1, 2}, {3} >>
ConfigSubdomains == << "www", "api" >>
AllIps == UNION {ConfigIps[i] : i \in 1..Len(ConfigIps)}

Threads == 1..MaxThreads

(***************************************************************************)
(* Timing derivation                                                       *)
(***************************************************************************)
RECURSIVE SumLoopDuration(_, _, _, _)
SumLoopDuration(ipsets, i, connection_timeout, delta_per_record) ==
    IF i > Len(ipsets) THEN 0
    ELSE Cardinality(ipsets[i]) * connection_timeout + delta_per_record
         + SumLoopDuration(ipsets, i + 1, connection_timeout, delta_per_record)

\* calculate_max_interval that leaves the signing allowance out.
calculate_max_interval_IgnoresSign(min_interval, connection_timeout, ipsets, sign) ==
    LET max_loop_duration ==
            SumLoopDuration(ipsets, 1, connection_timeout, DELTA_PER_RECORD_MANAGEMENT)
    IN IF max_loop_duration > min_interval THEN max_loop_duration ELSE min_interval

calculate_max_interval(min_interval, connection_timeout, ipsets, sign) ==
    LET delta_per_record ==
            DELTA_PER_RECORD_MANAGEMENT + (IF sign THEN DELTA_PER_RECORD_SIGN ELSE 0)
        max_loop_duration ==
            SumLoopDuration(ipsets, 1, connection_timeout, delta_per_record)
    IN IF max_loop_duration > min_interval THEN max_loop_duration ELSE min_interval

calculate_a_ttl(max_interval) == max_interval * 2
calculate_ns_ttl(max_interval) == calculate_a_ttl(max_interval) * 30
calculate_soa_ttl(max_interval) == calculate_ns_ttl(max_interval)
\* calculate_dnskey_ttl equal to the NS TTL.
calculate_dnskey_ttl_AsNs(max_interval) == calculate_ns_ttl(max_interval)

calculate_dnskey_ttl(max_interval) == calculate_a_ttl(max_interval) * 10
calculate_soa_refresh(max_interval) == calculate_dnskey_ttl(max_interval)
calculate_soa_retry(max_interval) == calculate_a_ttl(max_interval)
calculate_soa_expire(max_interval) == calculate_soa_retry(max_interval) * 5
calculate_soa_min_ttl(max_interval) == calculate_a_ttl(max_interval)
calculate_rrsig_lifetime(max_interval) ==
    [resign |-> calculate_soa_refresh(max_interval),
     expiration |-> 2 * calculate_soa_refresh(max_interval)
                    + calculate_soa_expire(max_interval)
                    + calculate_soa_retry(max_interval)]

\* The clock advances by one second or by one whole signature period.
LongStep ==
    LET life == calculate_rrsig_lifetime(
                    calculate_max_interval(MinInterval, ConnectionTimeout, ConfigIps, TRUE))
    IN life.expiration + life.resign
TickSteps == {1, LongStep}
TicksTaken(t) == ((t - StartTime) \div LongStep) + ((t - StartTime) % LongStep)

(***************************************************************************)
(* State                                                                   *)
(***************************************************************************)
VARIABLES
    do_sign,            \* config.ext_private_key is not None
    now,                \* wall clock, seconds
    zone,               \* published version of self._zone: a set of RRsets
    a_recs,             \* self._a_recs
    rrsig_resign,       \* self._rrsig_action.resign (0 = the epoch)
    stop_event,         \* self._stop_event
    updater_thread,     \* self._updater_thread (0 = None)
    workers,            \* every thread start() ever created
    main_pc,            \* position of the thread calling start()/stop()
    reader_apex,        \* rdtypes at the apex of the version the latest reader got
    pre_rebuild_zone,   \* between the two writers of a rebuild: the version before it
    last_rebuild_serial,\* SOA serial of the latest successful rebuild
    stop_result,        \* what the latest stop() returned ("none" before it returns)
    join_deadline,      \* while stop() joins: when the join times out
    aliases,            \* alias zones as supplied in the configuration
    handler,            \* the UDP handler serving one datagram
    relativized,        \* latest ZoneOrigins.relativize call and its result
    config_call,        \* latest make_config / ZoneOrigins(...) call and what it gave
    serial_source,      \* the generator _iter_soa_serial: last_serial and what it yielded
    timings,            \* latest derivation of the TTLs and SOA/RRSIG times
    interval,           \* latest _calculate_max_interval call and its result
    ip_call             \* latest AHealthyIp constructions, comparison and updated_status

vars == << do_sign, now, zone, a_recs, rrsig_resign, stop_event, updater_thread,
           workers, main_pc, reader_apex, pre_rebuild_zone,
           last_rebuild_serial, stop_result, join_deadline,
           aliases, handler, relativized,
           config_call, serial_source, timings, interval, ip_call >>

\* State of the helpers the updater's steps never touch.
helper_vars == << config_call, serial_source, timings, interval, ip_call >>

\* State of the query side, untouched by the updater.
handler_vars == << aliases, handler, relativized, helper_vars >>

max_interval ==
    calculate_max_interval(MinInterval, ConnectionTimeout, ConfigIps, do_sign)

(***************************************************************************)
(* Records                                                                 *)
(***************************************************************************)
HealthyIp(ip, health_port, is_healthy) ==
    [ip |-> ip, health_port |-> health_port, is_healthy |-> is_healthy]

updated_status(health_ip, is_healthy) ==
    IF is_healthy = health_ip.is_healthy
    THEN health_ip
    ELSE HealthyIp(health_ip.ip, health_ip.health_port, is_healthy)

SeqToSet(s) == {s[i] : i \in 1..Len(s)}

\* updated_ips that keeps only the addresses found healthy.
updated_ips_OnlyHealthy(a_record, updated_list) ==
    [a_record EXCEPT !.healthy_ips =
        {h \in SeqToSet(updated_list) : h.is_healthy}]

\* A list never equals a frozenset, so a new record is always built; its
\* IPs are the frozenset of the list.
updated_ips(a_record, updated_list) ==
    [a_record EXCEPT !.healthy_ips = SeqToSet(updated_list)]

\* Iteration order of a frozenset of HealthyIp: by address.
RECURSIVE IterIps(_)
IterIps(S) ==
    IF S = {} THEN << >>
    ELSE LET first == CHOOSE h \in S : \A g \in S : h.ip <= g.ip
         IN << first >> \o IterIps(S \ {first})

\* InitialARecs with every address configured as healthy.
InitialARecs_Healthy ==
    [i \in 1..Len(ConfigIps) |->
        [subdomain |-> ConfigSubdomains[i],
         ttl_a |-> calculate_a_ttl(max_interval),
         healthy_ips |-> {HealthyIp(ip, HealthPort, TRUE) : ip \in ConfigIps[i]}]]

\* config.a_records as the factory builds them: AHealthyIp(ip, health_port,
\* False) for every address.
InitialARecs ==
    [i \in 1..Len(ConfigIps) |->
        [subdomain |-> ConfigSubdomains[i],
         ttl_a |-> calculate_a_ttl(max_interval),
         healthy_ips |-> {HealthyIp(ip, HealthPort, FALSE) : ip \in ConfigIps[i]}]]

(***************************************************************************)
(* Zone contents                                                           *)
(***************************************************************************)
RRset(name, rdtype, covers, ttl, items, inception, expiration) ==
    [name |-> name, rdtype |-> rdtype, covers |-> covers, ttl |-> ttl,
     items |-> items, inception |-> inception, expiration |-> expiration]

DnssecTypes == {"DNSKEY", "NSEC", "RRSIG"}

make_ns_record == RRset(Apex, "NS", "", calculate_ns_ttl(max_interval), NameServers, 0, 0)

\* The SOA RRset as published.  txn.add is handed self._soa_rec, the
\* generator of _iter_soa_record, and is taken to publish the SOA RRset;
\* the serial is the one txn.update_serial(int(time.time())) then sets, so
\* the generator's own serial source is never advanced.
make_soa_record(soa_serial) ==
    RRset(Apex, "SOA", "", calculate_soa_ttl(max_interval),
          {[serial |-> soa_serial,
            refresh |-> calculate_soa_refresh(max_interval),
            retry |-> calculate_soa_retry(max_interval),
            expire |-> calculate_soa_expire(max_interval),
            min_ttl |-> calculate_soa_min_ttl(max_interval)]},
          0, 0)

HealthyAddresses(a_record) ==
    {h.ip : h \in {g \in a_record.healthy_ips : g.is_healthy}}

\* AddARecord without the is_healthy filter.
AddARecord_AllIps(a_record) ==
    {RRset(a_record.subdomain, "A", "", a_record.ttl_a,
           {h.ip : h \in a_record.healthy_ips}, 0, 0)}

\* _add_a_record_to_zone_with_transaction: the RRsets added for one record.
AddARecord(a_record) ==
    LET ips == HealthyAddresses(a_record)
    IN IF ips # {}
       THEN {RRset(a_record.subdomain, "A", "", a_record.ttl_a, ips, 0, 0)}
       ELSE {}

\* _clear_zone_with_transaction then _add_records_to_zone_with_transaction:
\* the contents the first writer transaction commits.
AddRecords(recs, soa_serial) ==
    {make_ns_record, make_soa_record(soa_serial)}
    \cup UNION {AddARecord(recs[i]) : i \in 1..Len(recs)}

\* dns.dnssec.sign_zone: DNSKEY at the apex, NSEC at every node, and an
\* RRSIG over every RRset.
SignZone(z, inception, expiration, dnskey_ttl) ==
    LET plain == {r \in z : r.rdtype \notin DnssecTypes}
        names == {r.name : r \in plain}
        dnskey == RRset(Apex, "DNSKEY", "", dnskey_ttl, {1}, 0, 0)
        nsecs == {RRset(n, "NSEC", "", calculate_soa_min_ttl(max_interval), {1}, 0, 0)
                    : n \in names}
        covered == plain \cup {dnskey} \cup nsecs
        rrsigs == {RRset(r.name, "RRSIG", r.rdtype, r.ttl, {1}, inception, expiration)
                    : r \in covered}
    IN covered \cup rrsigs

\* iter_rrsig_key whose re-sign time is the inception.
iter_rrsig_key_ResignAtInception(t) ==
    LET lifetime == calculate_rrsig_lifetime(max_interval)
    IN [inception |-> t,
        expiration |-> t + lifetime.expiration,
        dnskey_ttl |-> calculate_dnskey_ttl(max_interval),
        resign |-> t]

\* _iter_rrsig_key: the key yielded at time t.
iter_rrsig_key(t) ==
    LET lifetime == calculate_rrsig_lifetime(max_interval)
        expiration == t + lifetime.expiration
    IN [inception |-> t,
        expiration |-> expiration,
        dnskey_ttl |-> calculate_dnskey_ttl(max_interval),
        resign |-> expiration + lifetime.resign]

ApexTypes(z) == {r.rdtype : r \in {q \in z : q.name = Apex}}

SoaSerial(z) ==
    LET serials == {rdata.serial :
                       rdata \in UNION {r.items : r \in {q \in z : q.rdtype = "SOA"}}}
    IN IF serials = {} THEN 0 ELSE CHOOSE s \in serials : TRUE

(***************************************************************************)
(* Threads                                                                 *)
(***************************************************************************)
NoWorker ==
    [pc |-> "unborn", rec_idx |-> 0, ip_idx |-> 0, checked |-> << >>,
     updated |-> << >>, changes |-> FALSE,
     start_time |-> 0, wake_at |-> 0, aborted |-> FALSE,
     pass_probe |-> [ip \in AllIps |-> "none"]]

Dead(pc) == [NoWorker EXCEPT !.pc = pc]

is_alive(t) == workers[t].pc \notin {"unborn", "done", "crashed"}

Created == Cardinality({t \in Threads : workers[t].pc # "unborn"})

\* StartSeesRunning judged by the stop flag instead of is_alive().
StartSeesRunning_ByFlag == updater_thread # 0 /\ ~stop_event

\* start(): `self._updater_thread and self._updater_thread.is_alive()`
StartSeesRunning == updater_thread # 0 /\ is_alive(updater_thread)

\* stop(): `not self._updater_thread or not self._updater_thread.is_alive()`
StopSeesNotRunning == updater_thread = 0 \/ ~is_alive(updater_thread)

\* stop(): `timeout=self._connection_timeout + _STOP_JOIN_EXTRA_TIMEOUT`
JoinTimeout == ConnectionTimeout + STOP_JOIN_EXTRA_TIMEOUT

\* Thread.join(timeout) returns once the thread has ended or the time is up.
JoinReturns == ~is_alive(updater_thread) \/ now >= join_deadline

\* JoinResult that reports success whatever the join found.
JoinResult_AlwaysTrue == "true"

\* stop(): `if self._updater_thread.is_alive(): return False`, else True
JoinResult == IF is_alive(updater_thread) THEN "false" ELSE "true"

\* _refresh_a_recs: `if self._stop_event.is_set()` before each record
AbortRefresh == stop_event

\* AbortRecordCheck with the check before each probe left out.
AbortRecordCheck_Never == FALSE

\* _refresh_a_record: `if self._stop_event.is_set()` before each probe
AbortRecordCheck == stop_event

\* _update_zone_loop: `while not self._stop_event.is_set()`
LoopContinues == ~stop_event

\* is_zone_sign_near_to_expire that reports a configured key as always due.
is_zone_sign_near_to_expire_Always == do_sign

\* _is_zone_sign_near_to_expire
is_zone_sign_near_to_expire ==
    IF do_sign THEN now >= rrsig_resign ELSE FALSE

(***************************************************************************)
(* Names.  A dns.name.Name is its sequence of labels; an absolute name     *)
(* ends with the root label "".                                            *)
(***************************************************************************)
Root == << "" >>

\* config.origin_name, the origin of the zone
Primary == << "z", "e", "" >>

\* Alias zones a configuration may name: the parent of the primary origin, a
\* zone under it, an unrelated zone and a zone under that one.
AliasCandidates ==
    { << "e", "" >>, << "www", "z", "e", "" >>, << "q", "" >>, << "www", "q", "" >> }

RECURSIVE SeqsUpTo(_, _)
SeqsUpTo(S, n) ==
    IF n = 0 THEN { << >> }
    ELSE LET shorter == SeqsUpTo(S, n - 1)
         IN shorter \cup {Append(q, x) : q \in shorter, x \in S}

\* The alias lists a configuration may supply, in order, repeats allowed.
AliasLists == SeqsUpTo(AliasCandidates, MaxAliases)

is_absolute(name) == Len(name) > 0 /\ name[Len(name)] = ""

\* dns.name.Name.is_subdomain: names of different kinds are unrelated.
is_subdomain(name, other) ==
    /\ is_absolute(name) = is_absolute(other)
    /\ Len(other) <= Len(name)
    /\ SubSeq(name, Len(name) - Len(other) + 1, Len(name)) = other

\* dns.name.Name.relativize: strip the origin when the name is under it.
name_relativize(name, origin) ==
    IF is_subdomain(name, origin)
    THEN SubSeq(name, 1, Len(name) - Len(origin))
    ELSE name

\* dns.name.Name.derelativize
name_derelativize(name, origin) ==
    IF is_absolute(name) THEN name ELSE name \o origin

\* An Optional[dns.name.Name]
Some(name) == [ok |-> TRUE, name |-> name]
None == [ok |-> FALSE, name |-> << >>]

\* `if not normalized_name`: None is falsy, and so is a name without labels.
Falsy(opt) == ~opt.ok \/ Len(opt.name) = 0

\* The owner names the zone stores are relative to the origin.
RelName(owner) == IF owner = Apex THEN << >> ELSE << owner >>

(***************************************************************************)
(* The UDP handler's state                                                 *)
(***************************************************************************)
NoDatagram == [kind |-> "none", qr |-> FALSE, name |-> << >>, rdtype |-> ""]
NoResponse == [made |-> FALSE, rcode |-> "", aa |-> FALSE, answer |-> {}]

\* No datagram is being served.
HandlerIdle ==
    [pc |-> "idle", datagram |-> NoDatagram, response |-> NoResponse,
     lookup |-> None, reader_opened |-> FALSE, sent |-> 0]

\* ZoneOrigins.relativize has not been called.
NoRelativize == [called |-> FALSE, name |-> << >>, result |-> None]

\* An entry of a configuration argument: text that is_valid_subdomain
\* accepts, with the absolute name dns.name.from_text makes of it, or text
\* it rejects.
ValidEntry(name) == [valid |-> TRUE, name |-> name]
InvalidEntry == [valid |-> FALSE, name |-> << >>]

\* args["alias_zones"]: absent or empty, text that is no JSON, JSON that is
\* no list, or a JSON list of entries.
NoAliasArg == [kind |-> "absent", entries |-> << >>]

\* make_config returned None / ZoneOrigins(...) raised
NoConfig == [ok |-> FALSE, origin_name |-> << >>, alias_zones |-> {}]
NoOrigins == [ok |-> FALSE, origins |-> << >>]

NoConfigCall ==
    [called |-> FALSE,
     args |-> [zone |-> ValidEntry(Primary), alias_zones |-> NoAliasArg],
     config |-> NoConfig, origins |-> NoOrigins]

\* _iter_soa_serial before its first next(): `last_serial = 0`
NoSerialSource == [last_serial |-> 0, yielded |-> << >>, state |-> "running"]

NoTimings ==
    [called |-> FALSE, max_interval |-> 0, ttl_a |-> 0, ttl_ns |-> 0,
     ttl_soa |-> 0, ttl_dnskey |-> 0, soa_refresh |-> 0, soa_retry |-> 0,
     soa_expire |-> 0, soa_min_ttl |-> 0, rrsig_resign |-> 0,
     rrsig_expiration |-> 0]

NoInterval ==
    [called |-> FALSE, min_interval |-> 0, connection_timeout |-> 0,
     ipsets |-> << >>, sign |-> FALSE, result |-> 0]

\* No AHealthyIp: the constructor raised ValueError, or none was made yet.
NoInstance ==
    [ok |-> FALSE, id |-> 0, ip |-> << >>, health_port |-> 0, is_healthy |-> FALSE]

NoIpArgs == [ip |-> << >>, health_port |-> 0, is_healthy |-> FALSE]

NoIpCall ==
    [called |-> FALSE, a |-> NoIpArgs, b |-> NoIpArgs,
     first |-> NoInstance, second |-> NoInstance,
     equal |-> FALSE, hash_equal |-> FALSE,
     updated_called |-> FALSE, flag |-> FALSE, updated |-> NoInstance]

\* No helper has been called.
HelpersIdle ==
    /\ config_call = NoConfigCall
    /\ serial_source = NoSerialSource
    /\ timings = NoTimings
    /\ interval = NoInterval
    /\ ip_call = NoIpCall

Init ==
    /\ do_sign \in BOOLEAN
    /\ now = StartTime
    /\ zone = {}
    /\ a_recs = InitialARecs
    /\ rrsig_resign = 0
    /\ stop_event = FALSE
    /\ updater_thread = 0
    /\ workers = [t \in Threads |-> NoWorker]
    /\ main_pc = "idle"
    /\ reader_apex = {}
    /\ pre_rebuild_zone = {}
    /\ last_rebuild_serial = 0
    /\ stop_result = "none"
    /\ join_deadline = 0
    /\ aliases = << >>
    /\ handler = HandlerIdle
    /\ relativized = NoRelativize
    /\ HelpersIdle

(***************************************************************************)
(* Environment: the clock and the query handlers                           *)
(***************************************************************************)
Tick ==
    /\ TicksTaken(now) < MaxTicks
    /\ \E d \in TickSteps : now' = now + d
    /\ UNCHANGED << handler_vars, stop_result, join_deadline, do_sign, zone, a_recs, rrsig_resign, stop_event, updater_thread,
                    workers, main_pc, reader_apex, pre_rebuild_zone,
                    last_rebuild_serial >>

\* _update_response: `with zone.reader() as txn` gets the published version;
\* txn.get_node(apex) is the node of that version.
Reader ==
    /\ reader_apex' = ApexTypes(zone)
    /\ UNCHANGED << handler_vars, stop_result, join_deadline, do_sign, now, zone, a_recs, rrsig_resign, stop_event,
                    updater_thread, workers, main_pc, pre_rebuild_zone,
                    last_rebuild_serial >>

(***************************************************************************)
(* start() and stop(), run by the controlling thread                       *)
(***************************************************************************)
CallStart ==
    /\ main_pc = "idle"
    /\ Created < MaxThreads
    /\ main_pc' = "start_check"
    /\ stop_result' = "none"
    /\ UNCHANGED << handler_vars, join_deadline, do_sign, now, zone, a_recs, rrsig_resign, stop_event,
                    updater_thread, workers, reader_apex,
                    pre_rebuild_zone, last_rebuild_serial >>

\* StartAlreadyRunning with the stop flag cleared before the return.
StartAlreadyRunning_ClearsFlag ==
    /\ main_pc' = "idle"
    /\ stop_event' = FALSE
    /\ UNCHANGED << handler_vars, stop_result, join_deadline, do_sign, now, zone, a_recs, rrsig_resign,
                    updater_thread, workers, reader_apex,
                    pre_rebuild_zone, last_rebuild_serial >>

\* start(): "Zone Updater is already running" -> return
StartAlreadyRunning ==
    /\ main_pc' = "idle"
    /\ UNCHANGED << handler_vars, stop_result, join_deadline, do_sign, now, zone, a_recs, rrsig_resign, stop_event,
                    updater_thread, workers, reader_apex,
                    pre_rebuild_zone, last_rebuild_serial >>

\* StartCheck that goes on to clear the flag without initializing the zone.
StartCheck_SkipsInit ==
    /\ main_pc = "start_check"
    /\ IF StartSeesRunning
       THEN StartAlreadyRunning
       ELSE /\ main_pc' = "start_clear"
            /\ UNCHANGED << handler_vars, stop_result, join_deadline, do_sign,
                            now, zone, a_recs, rrsig_resign, stop_event,
                            updater_thread, workers, reader_apex,
                            pre_rebuild_zone, last_rebuild_serial >>

StartCheck ==
    /\ main_pc = "start_check"
    /\ IF StartSeesRunning
       THEN StartAlreadyRunning
       ELSE /\ main_pc' = "start_txn1"
            /\ UNCHANGED << handler_vars, stop_result, join_deadline, do_sign, now, zone, a_recs, rrsig_resign, stop_event,
                            updater_thread, workers, reader_apex,
                            pre_rebuild_zone, last_rebuild_serial >>

\* _initialize_zone, first writer: clear, add NS, SOA (serial int(time.time()))
\* and the A records; committed on scope exit.
StartTxn1 ==
    /\ main_pc = "start_txn1"
    /\ pre_rebuild_zone' = zone
    /\ zone' = AddRecords(a_recs, now)
    /\ main_pc' = "start_txn2"
    /\ UNCHANGED << handler_vars, stop_result, join_deadline, do_sign, now, a_recs, rrsig_resign, stop_event, updater_thread,
                    workers, reader_apex, last_rebuild_serial >>

\* _initialize_zone, second writer: _sign_zone_with_transaction.  The signer
\* either succeeds or raises; an exception rolls the writer back and leaves
\* start().
StartTxn2 ==
    /\ main_pc = "start_txn2"
    /\ IF ~do_sign
       THEN /\ main_pc' = "start_clear"
            /\ last_rebuild_serial' = SoaSerial(zone)
            /\ UNCHANGED << zone, rrsig_resign >>
       ELSE \E signer_ok \in BOOLEAN :
              IF signer_ok
              THEN LET key == iter_rrsig_key(now)
                   IN /\ zone' = SignZone(zone, key.inception, key.expiration,
                                          key.dnskey_ttl)
                      /\ rrsig_resign' = key.resign
                      /\ last_rebuild_serial' = SoaSerial(zone)
                      /\ main_pc' = "start_clear"
              ELSE /\ main_pc' = "idle"
                   /\ UNCHANGED << zone, rrsig_resign, last_rebuild_serial >>
    /\ pre_rebuild_zone' = {}
    /\ UNCHANGED << handler_vars, stop_result, join_deadline, do_sign, now, a_recs, stop_event, updater_thread, workers,
                    reader_apex >>

StartClear ==
    /\ main_pc = "start_clear"
    /\ stop_event' = FALSE
    /\ main_pc' = "start_spawn"
    /\ UNCHANGED << handler_vars, stop_result, join_deadline, do_sign, now, zone, a_recs, rrsig_resign, updater_thread,
                    workers, reader_apex, pre_rebuild_zone,
                    last_rebuild_serial >>

StartSpawn ==
    /\ main_pc = "start_spawn"
    /\ Created < MaxThreads
    /\ LET t == Created + 1
       IN /\ updater_thread' = t
          /\ workers' = [workers EXCEPT ![t] = [NoWorker EXCEPT !.pc = "loop"]]
    /\ main_pc' = "idle"
    /\ UNCHANGED << handler_vars, stop_result, join_deadline, do_sign, now, zone, a_recs, rrsig_resign, stop_event,
                    reader_apex, pre_rebuild_zone, last_rebuild_serial >>

\* stop(): "Zone Updater is not running" -> return True; otherwise set the
\* stop flag and join.
StopCheck ==
    /\ main_pc = "idle"
    /\ IF StopSeesNotRunning
       THEN /\ main_pc' = "idle"
            /\ stop_result' = "true"
            /\ UNCHANGED << stop_event, join_deadline >>
       ELSE /\ stop_event' = TRUE
            /\ join_deadline' = now + JoinTimeout
            /\ stop_result' = "none"
            /\ main_pc' = "stop_join"
    /\ UNCHANGED << handler_vars, do_sign, now, zone, a_recs, rrsig_resign, updater_thread,
                    workers, reader_apex, pre_rebuild_zone, last_rebuild_serial >>

\* join(timeout): returns when the worker has ended or the timeout has run
\* out; stop() then returns whether the worker has ended.
StopJoin ==
    /\ main_pc = "stop_join"
    /\ JoinReturns
    /\ stop_result' = JoinResult
    /\ join_deadline' = 0
    /\ main_pc' = "idle"
    /\ UNCHANGED << handler_vars, do_sign, now, zone, a_recs, rrsig_resign, stop_event,
                    updater_thread, workers, reader_apex,
                    pre_rebuild_zone, last_rebuild_serial >>

(***************************************************************************)
(* The worker: _update_zone_loop -> _update_zone -> _refresh_a_recs ->     *)
(* _refresh_a_record, then _initialize_zone                                *)
(***************************************************************************)
OtherVarsOfWorker ==
    << do_sign, now, stop_event, updater_thread, main_pc, reader_apex,
       stop_result, join_deadline, handler_vars >>

\* `while not self._stop_event.is_set()`: leave the loop (the thread ends) or
\* take start_time and enter _update_zone / _refresh_a_recs.
WorkerLoop(t) ==
    /\ workers[t].pc = "loop"
    /\ IF LoopContinues
       THEN /\ workers' = [workers EXCEPT ![t] =
                [NoWorker EXCEPT !.pc = "rec_check", !.rec_idx = 1,
                                 !.start_time = now]]
       ELSE /\ workers' = [workers EXCEPT ![t] = Dead("done")]
    /\ UNCHANGED << zone, a_recs, rrsig_resign, pre_rebuild_zone, last_rebuild_serial >>
    /\ UNCHANGED OtherVarsOfWorker

\* AfterRefresh that rebuilds after every refresh.
AfterRefresh_AlwaysRebuilds(t, refresh_result, was_aborted) ==
    workers' = [workers EXCEPT
        ![t].pc = "txn1",
        ![t].aborted = workers[t].aborted \/ was_aborted,
        ![t].pass_probe = IF was_aborted THEN NoWorker.pass_probe
                          ELSE workers[t].pass_probe,
        ![t].checked = << >>,
        ![t].changes = FALSE,
        ![t].rec_idx = 0]

\* _update_zone once _refresh_a_recs has returned `refresh_result`: the
\* rebuild decision.
AfterRefresh(t, refresh_result, was_aborted) ==
    LET do_update_zone == refresh_result \/ is_zone_sign_near_to_expire
    IN workers' = [workers EXCEPT
            ![t].pc = IF do_update_zone THEN "txn1" ELSE "sleep",
            ![t].aborted = workers[t].aborted \/ was_aborted,
            ![t].pass_probe = IF was_aborted THEN NoWorker.pass_probe
                              ELSE workers[t].pass_probe,
            ![t].checked = << >>,
            ![t].changes = FALSE,
            ![t].rec_idx = 0]

\* _refresh_a_recs, head of `for a_record in self._a_recs`.
WorkerRecCheck(t) ==
    LET w == workers[t] IN
    /\ w.pc = "rec_check"
    /\ IF w.rec_idx > Len(a_recs)
       THEN \* loop exhausted: self._a_recs = checked_a_recs; return changes
            /\ a_recs' = w.checked
            /\ AfterRefresh(t, w.changes, FALSE)
       ELSE IF AbortRefresh
       THEN \* "Zone updater stopped": return False
            /\ UNCHANGED a_recs
            /\ AfterRefresh(t, FALSE, TRUE)
       ELSE /\ workers' = [workers EXCEPT ![t].pc = "ip_check",
                                          ![t].ip_idx = 1,
                                          ![t].updated = << >>]
            /\ UNCHANGED a_recs
    /\ UNCHANGED << zone, rrsig_resign, pre_rebuild_zone, last_rebuild_serial >>
    /\ UNCHANGED OtherVarsOfWorker

\* _refresh_a_record, head of `for health_ip in a_record.healthy_ips`, and
\* on return the bookkeeping of _refresh_a_recs for that record.
WorkerIpCheck(t) ==
    LET w == workers[t]
        a_record == a_recs[w.rec_idx]
        ips == IterIps(a_record.healthy_ips)
        Return(checked_record, was_aborted) ==
            workers' = [workers EXCEPT
                ![t].pc = "rec_check",
                ![t].checked = Append(w.checked, checked_record),
                ![t].changes = w.changes
                               \/ checked_record.healthy_ips # a_record.healthy_ips,
                ![t].rec_idx = w.rec_idx + 1,
                ![t].updated = << >>,
                ![t].ip_idx = 0,
                ![t].aborted = w.aborted \/ was_aborted,
                ![t].pass_probe = IF was_aborted THEN NoWorker.pass_probe
                                  ELSE w.pass_probe]
    IN
    /\ w.pc = "ip_check"
    /\ IF w.ip_idx > Len(ips)
       THEN Return(updated_ips(a_record, w.updated), FALSE)
       ELSE IF AbortRecordCheck
       THEN \* "Abort record check. Return A record as it is"
            Return(a_record, TRUE)
       ELSE workers' = [workers EXCEPT ![t].pc = "probe"]
    /\ UNCHANGED << zone, a_recs, rrsig_resign, pre_rebuild_zone, last_rebuild_serial >>
    /\ UNCHANGED OtherVarsOfWorker

\* can_create_connection returns, with either outcome.
WorkerProbe(t) ==
    LET w == workers[t]
        health_ip == IterIps(a_recs[w.rec_idx].healthy_ips)[w.ip_idx]
    IN
    /\ w.pc = "probe"
    /\ \E connected \in BOOLEAN :
         workers' = [workers EXCEPT
            ![t].pc = "ip_check",
            ![t].updated = Append(w.updated, updated_status(health_ip, connected)),
            ![t].ip_idx = w.ip_idx + 1,
            ![t].pass_probe = IF w.aborted THEN w.pass_probe
                              ELSE [w.pass_probe EXCEPT ![health_ip.ip] =
                                        IF connected THEN "ok" ELSE "fail"]]
    /\ UNCHANGED << zone, a_recs, rrsig_resign, pre_rebuild_zone, last_rebuild_serial >>
    /\ UNCHANGED OtherVarsOfWorker

\* _initialize_zone, first writer.
WorkerTxn1(t) ==
    /\ workers[t].pc = "txn1"
    /\ pre_rebuild_zone' = zone
    /\ zone' = AddRecords(a_recs, now)
    /\ workers' = [workers EXCEPT ![t].pc = "txn2"]
    /\ UNCHANGED << a_recs, rrsig_resign, last_rebuild_serial >>
    /\ UNCHANGED OtherVarsOfWorker

\* _initialize_zone, second writer.  A signer exception leaves
\* _update_zone_loop, which catches nothing: the thread ends.
WorkerTxn2(t) ==
    /\ workers[t].pc = "txn2"
    /\ IF ~do_sign
       THEN /\ workers' = [workers EXCEPT ![t].pc = "sleep"]
            /\ last_rebuild_serial' = SoaSerial(zone)
            /\ UNCHANGED << zone, rrsig_resign >>
       ELSE \E signer_ok \in BOOLEAN :
              IF signer_ok
              THEN LET key == iter_rrsig_key(now)
                   IN /\ zone' = SignZone(zone, key.inception, key.expiration,
                                          key.dnskey_ttl)
                      /\ rrsig_resign' = key.resign
                      /\ last_rebuild_serial' = SoaSerial(zone)
                      /\ workers' = [workers EXCEPT ![t].pc = "sleep"]
              ELSE /\ workers' = [workers EXCEPT ![t] = Dead("crashed")]
                   /\ UNCHANGED << zone, rrsig_resign, last_rebuild_serial >>
    /\ pre_rebuild_zone' = {}
    /\ UNCHANGED a_recs
    /\ UNCHANGED OtherVarsOfWorker

\* WorkerSleep that starts the next iteration at once.
WorkerSleep_NoWait(t) ==
    /\ workers[t].pc = "sleep"
    /\ workers' = [workers EXCEPT ![t] = [NoWorker EXCEPT !.pc = "loop"]]
    /\ UNCHANGED << zone, a_recs, rrsig_resign, pre_rebuild_zone, last_rebuild_serial >>
    /\ UNCHANGED OtherVarsOfWorker

\* _update_zone has returned: elapsed, sleep_time = max(0, min_interval -
\* elapsed); wait only if sleep_time > 0.
WorkerSleep(t) ==
    LET w == workers[t]
        elapsed == now - w.start_time
        sleep_time == IF MinInterval - elapsed > 0 THEN MinInterval - elapsed ELSE 0
    IN
    /\ w.pc = "sleep"
    /\ workers' = [workers EXCEPT ![t] =
            [NoWorker EXCEPT
                !.pc = IF sleep_time > 0 THEN "waiting" ELSE "loop",
                !.wake_at = IF sleep_time > 0 THEN now + sleep_time ELSE 0]]
    /\ UNCHANGED << zone, a_recs, rrsig_resign, pre_rebuild_zone, last_rebuild_serial >>
    /\ UNCHANGED OtherVarsOfWorker

\* self._stop_event.wait(sleep_time) returns: the flag is set, or the
\* timeout has run out.
WorkerWake(t) ==
    LET w == workers[t] IN
    /\ w.pc = "waiting"
    /\ stop_event \/ now >= w.wake_at
    /\ workers' = [workers EXCEPT ![t].pc = "loop", ![t].wake_at = 0]
    /\ UNCHANGED << zone, a_recs, rrsig_resign, pre_rebuild_zone, last_rebuild_serial >>
    /\ UNCHANGED OtherVarsOfWorker

WorkerStep(t) ==
    \/ WorkerLoop(t)
    \/ WorkerRecCheck(t)
    \/ WorkerIpCheck(t)
    \/ WorkerProbe(t)
    \/ WorkerTxn1(t)
    \/ WorkerTxn2(t)
    \/ WorkerSleep(t)
    \/ WorkerWake(t)

Worker == \E t \in Threads : WorkerStep(t)

Next ==
    \/ Tick
    \/ CallStart
    \/ StartCheck
    \/ StartTxn1
    \/ StartTxn2
    \/ StartClear
    \/ StartSpawn
    \/ StopCheck
    \/ StopJoin
    \/ Worker

Spec == Init /\ [][Next]_vars

\* The updater together with query handlers reading the zone.
NextWithReaders ==
    \/ Next
    \/ Reader

ReaderSpec == Init /\ [][NextWithReaders]_vars

\* The worker runs whenever it can: a probe returns, a wait ends when the
\* flag is set, a runnable thread is scheduled.
LiveSpec == Spec /\ \A t \in Threads : WF_vars(WorkerStep(t))

(***************************************************************************)
(* The UDP handler (dns_server_udp_handler.py), serving one datagram at a  *)
(* time against a zone the updater has published.  The DNS library is      *)
(* modelled by its contract: from_wire raises a DNSException for bytes     *)
(* that are no DNS message; make_response raises FormError for a message   *)
(* whose QR flag is set.                                                   *)
(***************************************************************************)
\* Health flags of the zones the handler is run against.
HealthySets == { {}, {1}, {1, 3} }

QueryLabels == { << >>, << "www" >>, << "nope" >> }
QueryTypes == {"A", "SOA", "TXT"}
QueryNames ==
    {prefix \o origin : prefix \in QueryLabels,
                        origin \in {Primary, << "x", "" >>} \cup AliasCandidates}

\* What a datagram can be: bytes that do not parse, or a message with the QR
\* flag set or clear and with no question or one question.
Datagrams ==
    {[kind |-> "garbage", qr |-> FALSE, name |-> << >>, rdtype |-> ""]}
    \cup {[kind |-> "noquestion", qr |-> qr, name |-> << >>, rdtype |-> ""] :
             qr \in BOOLEAN}
    \cup {[kind |-> "question", qr |-> qr, name |-> n, rdtype |-> ty] :
             qr \in BOOLEAN, n \in QueryNames, ty \in QueryTypes}

\* a_recs with exactly the IPs of `healthy` marked healthy
ARecsWith(healthy) ==
    [i \in 1..Len(InitialARecs) |->
        [InitialARecs[i] EXCEPT !.healthy_ips =
            {HealthyIp(h.ip, h.health_port, h.ip \in healthy) :
                h \in InitialARecs[i].healthy_ips}]]

\* The zone _initialize_zone publishes from `recs` at time t.
PublishedZone(recs, t) ==
    IF do_sign
    THEN LET key == iter_rrsig_key(t)
         IN SignZone(AddRecords(recs, t), key.inception, key.expiration,
                     key.dnskey_ttl)
    ELSE AddRecords(recs, t)

\* The updater after start(), one pass that found `healthy`, and stop(); the
\* handler serves datagrams against the zone that pass left.
HandlerInit ==
    /\ do_sign \in BOOLEAN
    /\ now = StartTime
    /\ \E healthy \in HealthySets :
          /\ a_recs = ARecsWith(healthy)
          /\ zone = PublishedZone(a_recs, now)
    /\ rrsig_resign = IF do_sign THEN iter_rrsig_key(now).resign ELSE 0
    /\ stop_event = TRUE
    /\ updater_thread = 1
    /\ workers = [t \in Threads |-> IF t = 1 THEN Dead("done") ELSE NoWorker]
    /\ main_pc = "idle"
    /\ reader_apex = {}
    /\ pre_rebuild_zone = {}
    /\ last_rebuild_serial = now
    /\ stop_result = "true"
    /\ join_deadline = 0
    /\ aliases \in AliasLists
    /\ handler = HandlerIdle
    /\ relativized = NoRelativize
    /\ HelpersIdle

UpdaterVars ==
    << do_sign, now, zone, a_recs, rrsig_resign, stop_event, updater_thread,
       workers, main_pc, reader_apex, pre_rebuild_zone, last_rebuild_serial,
       stop_result, join_deadline >>

\* config.alias_zones: the frozenset made of the supplied list
alias_zones == SeqToSet(aliases)

\* normalize_query_name that hands back a name under no origin as it is.
normalize_query_name_KeepsUnmatched(query_name, zone_origin, alias_set) ==
    IF ~is_absolute(query_name) THEN {Some(query_name)}
    ELSE IF is_subdomain(query_name, zone_origin) THEN {Some(query_name)}
    ELSE LET matching == {a \in alias_set : is_subdomain(query_name, a)}
         IN IF matching = {} THEN {Some(query_name)}
            ELSE {LET relative_name == name_relativize(query_name, a)
                  IN IF relative_name = << >>
                     THEN Some(zone_origin)
                     ELSE Some(name_derelativize(relative_name, zone_origin)) :
                  a \in matching}

\* _normalize_query_name: every result the call can give.  The aliases are
\* a frozenset, so any alias the name is under may be the first one the
\* loop meets.
normalize_query_name(query_name, zone_origin, alias_set) ==
    IF ~is_absolute(query_name) THEN {Some(query_name)}
    ELSE IF is_subdomain(query_name, zone_origin) THEN {Some(query_name)}
    ELSE LET matching == {a \in alias_set : is_subdomain(query_name, a)}
         IN IF matching = {} THEN {None}
            ELSE {LET relative_name == name_relativize(query_name, a)
                  IN IF relative_name = << >>
                     THEN Some(zone_origin)
                     ELSE Some(name_derelativize(relative_name, zone_origin)) :
                  a \in matching}

\* txn.get_node(name) on version z: the RRsets of the node, {} for no node
get_node(z, name) == {r \in z : RelName(r.name) = name}

\* node.get_rdataset(rdclass, rdtype), covers left at NONE
get_rdataset(node, rdtype) == {r \in node : r.rdtype = rdtype /\ r.covers = ""}

\* The relative name _update_response looks up for a normalized name
lookup_name(normalized_name, zone_origin) ==
    IF ~is_absolute(normalized_name) THEN Some(normalized_name)
    ELSE IF is_subdomain(normalized_name, zone_origin)
         THEN Some(name_relativize(normalized_name, zone_origin))
         ELSE None

\* `response.set_rcode(dns.rcode.NXDOMAIN)` when the rdataset is missing
RcodeTypeNotFound == "NXDOMAIN"

\* The answer RRset: the original query name with the stored ttl and rdata
answer_rrset(query_name, rdataset) ==
    [name |-> query_name, rdtype |-> rdataset.rdtype, ttl |-> rdataset.ttl,
     items |-> rdataset.items]

\* _update_response for one possible result of _normalize_query_name: what
\* becomes of the response, the name looked up, whether a reader was opened
update_response(response, query_name, query_type, z, normalized) ==
    IF Falsy(normalized)
    THEN [response |-> [response EXCEPT !.rcode = "NXDOMAIN"],
          lookup |-> None, reader_opened |-> FALSE]
    ELSE LET looked == lookup_name(normalized.name, Primary)
             node == IF looked.ok THEN get_node(z, looked.name) ELSE {}
             rdataset == get_rdataset(node, query_type)
         IN [lookup |-> looked,
             reader_opened |-> TRUE,
             response |->
                IF node = {} THEN [response EXCEPT !.rcode = "NXDOMAIN"]
                ELSE IF rdataset = {}
                     THEN [response EXCEPT !.rcode = RcodeTypeNotFound]
                     ELSE [response EXCEPT !.answer =
                              {answer_rrset(query_name, r) : r \in rdataset}]]

\* handle(): `data, sock = self.request`
Receive ==
    /\ handler.pc \in {"idle", "sent", "dropped", "failed"}
    /\ \E d \in Datagrams : handler' = [HandlerIdle EXCEPT !.pc = "received",
                                                          !.datagram = d]
    /\ UNCHANGED << UpdaterVars, helper_vars, aliases, relativized >>

\* handle(): dns.message.from_wire inside try/except DNSException -> return
FromWire ==
    /\ handler.pc = "received"
    /\ handler' = [handler EXCEPT !.pc =
                      IF handler.datagram.kind = "garbage" THEN "dropped"
                      ELSE "parsed"]
    /\ UNCHANGED << UpdaterVars, helper_vars, aliases, relativized >>

\* SetAA that leaves the flags as make_response set them.
SetAA_Skipped(response) == response

\* handle(): `response.flags |= dns.flags.AA`
SetAA(response) == [response EXCEPT !.aa = TRUE]

\* handle(): dns.message.make_response(query), outside the try: its
\* FormError ends the handler; then the AA flag
MakeResponse ==
    /\ handler.pc = "parsed"
    /\ handler' =
          IF handler.datagram.qr
          THEN [handler EXCEPT !.pc = "failed"]
          ELSE [handler EXCEPT
                  !.pc = "respond",
                  !.response = SetAA([made |-> TRUE, rcode |-> "NOERROR",
                                      aa |-> FALSE, answer |-> {}])]
    /\ UNCHANGED << UpdaterVars, helper_vars, aliases, relativized >>

\* handle(): `response.set_rcode(dns.rcode.FORMERR)`
RcodeNoQuestion == "FORMERR"

\* handle(): `if query.question:` _update_response for the first question,
\* else FORMERR
Respond ==
    /\ handler.pc = "respond"
    /\ IF handler.datagram.kind = "question"
       THEN \E normalized \in normalize_query_name(handler.datagram.name,
                                                   Primary, alias_zones) :
              LET out == update_response(handler.response, handler.datagram.name,
                                         handler.datagram.rdtype, zone, normalized)
              IN handler' = [handler EXCEPT !.pc = "send",
                                            !.response = out.response,
                                            !.lookup = out.lookup,
                                            !.reader_opened = out.reader_opened]
       ELSE handler' = [handler EXCEPT !.pc = "send",
                                       !.response.rcode = RcodeNoQuestion]
    /\ UNCHANGED << UpdaterVars, helper_vars, aliases, relativized >>

\* SendTo that empties the zone through a writer before it sends.
SendTo_ClearsZone ==
    /\ handler.pc = "send"
    /\ handler' = [handler EXCEPT !.pc = "sent", !.sent = @ + 1]
    /\ zone' = {}
    /\ UNCHANGED << do_sign, now, a_recs, rrsig_resign, stop_event,
                    updater_thread, workers, main_pc, reader_apex,
                    pre_rebuild_zone, last_rebuild_serial, stop_result,
                    join_deadline >>
    /\ UNCHANGED << helper_vars, aliases, relativized >>

\* handle(): `sock.sendto(response.to_wire(), self.client_address)`
SendTo ==
    /\ handler.pc = "send"
    /\ handler' = [handler EXCEPT !.pc = "sent", !.sent = @ + 1]
    /\ UNCHANGED << UpdaterVars, helper_vars, aliases, relativized >>

HandlerNext == Receive \/ FromWire \/ MakeResponse \/ Respond \/ SendTo

HandlerSpec == HandlerInit /\ [][HandlerNext]_vars

(***************************************************************************)
(* ZoneOrigins (records/zone_origins.py)                                   *)
(***************************************************************************)
\* Order of the labels in use as text; no label is a prefix of another, so
\* comparing names label by label is comparing their to_text().
LabelRank ==
    ("" :> 0) @@ ("e" :> 1) @@ ("nope" :> 2) @@ ("q" :> 3) @@ ("www" :> 4)
    @@ ("x" :> 5) @@ ("z" :> 6)

TextLess(a, b) ==
    \E i \in 1..Len(a) :
       /\ i <= Len(b)
       /\ LabelRank[a[i]] < LabelRank[b[i]]
       /\ \A j \in 1..(i - 1) : a[j] = b[j]

\* OriginKeyLess with the label count ascending.
OriginKeyLess_Ascending(a, b) ==
    \/ Len(a) < Len(b)
    \/ Len(a) = Len(b) /\ TextLess(a, b)

\* __init__: `key=lambda zone: (-len(zone), zone.to_text())`
OriginKeyLess(a, b) ==
    \/ Len(a) > Len(b)
    \/ Len(a) = Len(b) /\ TextLess(a, b)

RECURSIVE SortOrigins(_)
SortOrigins(S) ==
    IF S = {} THEN << >>
    ELSE LET first == CHOOSE a \in S : \A b \in S \ {a} : OriginKeyLess(a, b)
         IN << first >> \o SortOrigins(S \ {first})

\* ZoneOrigins.__init__: self._origins
ZoneOriginsInit(primary, alias_seq) ==
    SortOrigins({primary} \cup SeqToSet(alias_seq))

\* ZoneOrigins.relativize
relativize(origins, name) ==
    IF ~is_absolute(name) THEN Some(name)
    ELSE LET matching == {i \in 1..Len(origins) : is_subdomain(name, origins[i])}
         IN IF matching = {} THEN None
            ELSE LET first == CHOOSE i \in matching : \A j \in matching : i <= j
                 IN Some(name_relativize(name, origins[first]))

\* Names relativize is called with: absolute and relative ones.
RelativizeInputs == QueryNames \cup QueryLabels

OriginsInit ==
    /\ do_sign \in BOOLEAN
    /\ now = StartTime
    /\ zone = {}
    /\ a_recs = InitialARecs
    /\ rrsig_resign = 0
    /\ stop_event = FALSE
    /\ updater_thread = 0
    /\ workers = [t \in Threads |-> NoWorker]
    /\ main_pc = "idle"
    /\ reader_apex = {}
    /\ pre_rebuild_zone = {}
    /\ last_rebuild_serial = 0
    /\ stop_result = "none"
    /\ join_deadline = 0
    /\ aliases \in AliasLists
    /\ handler = HandlerIdle
    /\ relativized = NoRelativize
    /\ HelpersIdle

Relativize ==
    /\ \E name \in RelativizeInputs :
          relativized' =
             [called |-> TRUE, name |-> name,
              result |-> relativize(ZoneOriginsInit(Primary, aliases), name)]
    /\ UNCHANGED << UpdaterVars, helper_vars, aliases, handler >>

OriginsNext == Relativize

OriginsSpec == OriginsInit /\ [][OriginsNext]_vars

\* The updater as constructed, before any start(); no query in progress.
UpdaterAtConstruction ==
    /\ do_sign \in BOOLEAN
    /\ now = StartTime
    /\ zone = {}
    /\ a_recs = InitialARecs
    /\ rrsig_resign = 0
    /\ stop_event = FALSE
    /\ updater_thread = 0
    /\ workers = [t \in Threads |-> NoWorker]
    /\ main_pc = "idle"
    /\ reader_apex = {}
    /\ pre_rebuild_zone = {}
    /\ last_rebuild_serial = 0
    /\ stop_result = "none"
    /\ join_deadline = 0
    /\ aliases = << >>
    /\ handler = HandlerIdle
    /\ relativized = NoRelativize

(***************************************************************************)
(* The configuration factory (dns_server_config_factory.py) and the        *)
(* construction of ZoneOrigins                                             *)
(***************************************************************************)
AliasEntries == {ValidEntry(a) : a \in AliasCandidates} \cup {InvalidEntry}

AliasArgs ==
    {[kind |-> k, entries |-> << >>] : k \in {"absent", "invalid_json", "not_a_list"}}
    \cup {[kind |-> "list", entries |-> es] : es \in SeqsUpTo(AliasEntries, MaxAliases)}

ConfigArgs ==
    {[zone |-> z, alias_zones |-> a] :
        z \in {ValidEntry(Primary), InvalidEntry}, a \in AliasArgs}

\* _make_origin_name: None for a hosted zone that is no valid subdomain
make_origin_name(args) ==
    IF ~args.zone.valid THEN None ELSE Some(args.zone.name)

\* _make_alias_zones: an empty frozenset for an absent argument, for text
\* that is no JSON and for JSON that is no list; otherwise the frozenset of
\* the valid entries, the invalid ones being skipped with a warning.
make_alias_zones(args) ==
    LET arg == args.alias_zones
    IN IF arg.kind # "list" THEN {}
       ELSE {arg.entries[i].name :
                i \in {j \in 1..Len(arg.entries) : arg.entries[j].valid}}

\* make_config, with resolutions, name servers and key taken as valid: None
\* for an invalid hosted zone, else the configuration; what
\* _make_alias_zones returns is taken as it is.
make_config(args) ==
    LET origin_name == make_origin_name(args)
    IN IF ~origin_name.ok THEN NoConfig
       ELSE [ok |-> TRUE, origin_name |-> origin_name.name,
             alias_zones |-> make_alias_zones(args)]

\* ZoneOrigins(primary, aliases) on the same texts: _to_abs_name raises
\* ValueError for an invalid name; otherwise self._origins is the sorted set.
NewZoneOrigins(args) ==
    LET es == args.alias_zones.entries
    IN IF ~args.zone.valid \/ \E i \in 1..Len(es) : ~es[i].valid
       THEN NoOrigins
       ELSE [ok |-> TRUE,
             origins |-> ZoneOriginsInit(args.zone.name,
                                         [i \in 1..Len(es) |-> es[i].name])]

ConfigInit ==
    /\ UpdaterAtConstruction
    /\ config_call \in {[NoConfigCall EXCEPT !.args = a] : a \in ConfigArgs}
    /\ serial_source = NoSerialSource
    /\ timings = NoTimings
    /\ interval = NoInterval
    /\ ip_call = NoIpCall

MakeConfig ==
    /\ ~config_call.called
    /\ config_call' = [config_call EXCEPT
                          !.called = TRUE,
                          !.config = make_config(config_call.args),
                          !.origins = NewZoneOrigins(config_call.args)]
    /\ UNCHANGED << UpdaterVars, aliases, handler, relativized,
                    serial_source, timings, interval, ip_call >>

ConfigNext == MakeConfig

ConfigSpec == ConfigInit /\ [][ConfigNext]_vars

(***************************************************************************)
(* The SOA serial source (records/soa_record.py, the same generator as in  *)
(* dns_server_zone_updater.py)                                             *)
(***************************************************************************)
\* uint32_current_time at wall clock t: int(time.time()).  Its
\* OverflowError needs a clock past 2^32 - 1, which no bounded run reaches.
uint32_current_time(t) == t

SerialInit ==
    /\ UpdaterAtConstruction
    /\ HelpersIdle

\* next() on the generator _iter_soa_serial: ValueError when the current
\* second is last_serial, else the second is stored and yielded.  A
\* generator an exception has left is finished: next() raises StopIteration.
NextSerial ==
    /\ serial_source' =
          IF serial_source.state # "running"
          THEN [serial_source EXCEPT !.state = "stopped"]
          ELSE LET current_serial == uint32_current_time(now)
               IN IF current_serial = serial_source.last_serial
                  THEN [serial_source EXCEPT !.state = "raised"]
                  ELSE [serial_source EXCEPT
                          !.last_serial = current_serial,
                          !.yielded = Append(@, current_serial)]
    /\ UNCHANGED << UpdaterVars, aliases, handler, relativized,
                    config_call, timings, interval, ip_call >>

\* A second passes.
SerialTick ==
    /\ now - StartTime < MaxSerialTicks
    /\ now' = now + 1
    /\ UNCHANGED << do_sign, zone, a_recs, rrsig_resign, stop_event,
                    updater_thread, workers, main_pc, reader_apex,
                    pre_rebuild_zone, last_rebuild_serial, stop_result,
                    join_deadline, handler_vars >>

SerialNext == NextSerial \/ SerialTick

SerialSpec == SerialInit /\ [][SerialNext]_vars

(***************************************************************************)
(* Timing derivation applied (records/time.py, the same functions as in    *)
(* dns_server_zone_updater.py, and _calculate_max_interval)                *)
(***************************************************************************)
\* Every derived time for one max_interval
Timings(m) ==
    [called |-> TRUE, max_interval |-> m,
     ttl_a |-> calculate_a_ttl(m),
     ttl_ns |-> calculate_ns_ttl(m),
     ttl_soa |-> calculate_soa_ttl(m),
     ttl_dnskey |-> calculate_dnskey_ttl(m),
     soa_refresh |-> calculate_soa_refresh(m),
     soa_retry |-> calculate_soa_retry(m),
     soa_expire |-> calculate_soa_expire(m),
     soa_min_ttl |-> calculate_soa_min_ttl(m),
     rrsig_resign |-> calculate_rrsig_lifetime(m).resign,
     rrsig_expiration |-> calculate_rrsig_lifetime(m).expiration]

\* The addresses of config.a_records, record by record: one record, the
\* configuration of the updater, and three records two of which share an
\* address.
IpsetLists == { << {1} >>, ConfigIps, << {1, 2}, {1}, {3} >> }

\* The updater after start() and one pass that found `healthy`, then
\* stopped: a zone is published.
TimingInit ==
    /\ do_sign \in BOOLEAN
    /\ now = StartTime
    /\ \E healthy \in HealthySets :
          /\ a_recs = ARecsWith(healthy)
          /\ zone = PublishedZone(a_recs, now)
    /\ rrsig_resign = IF do_sign THEN iter_rrsig_key(now).resign ELSE 0
    /\ stop_event = TRUE
    /\ updater_thread = 1
    /\ workers = [t \in Threads |-> IF t = 1 THEN Dead("done") ELSE NoWorker]
    /\ main_pc = "idle"
    /\ reader_apex = {}
    /\ pre_rebuild_zone = {}
    /\ last_rebuild_serial = now
    /\ stop_result = "true"
    /\ join_deadline = 0
    /\ aliases = << >>
    /\ handler = HandlerIdle
    /\ relativized = NoRelativize
    /\ HelpersIdle

CalculateTimings ==
    /\ \E m \in 1..MaxMaxInterval : timings' = Timings(m)
    /\ UNCHANGED << UpdaterVars, aliases, handler, relativized,
                    config_call, serial_source, interval, ip_call >>

CalculateMaxInterval ==
    /\ \E min_interval \in 1..MaxMinInterval,
          connection_timeout \in 1..MaxConnectionTimeout,
          ipsets \in IpsetLists, sign \in BOOLEAN :
          interval' =
             [called |-> TRUE, min_interval |-> min_interval,
              connection_timeout |-> connection_timeout,
              ipsets |-> ipsets, sign |-> sign,
              result |-> calculate_max_interval(min_interval, connection_timeout,
                                                ipsets, sign)]
    /\ UNCHANGED << UpdaterVars, aliases, handler, relativized,
                    config_call, serial_source, timings, ip_call >>

TimingNext == CalculateTimings \/ CalculateMaxInterval

TimingSpec == TimingInit /\ [][TimingNext]_vars

(***************************************************************************)
(* AHealthyIp (records/a_healthy_ip.py) with is_valid_ip, is_valid_port    *)
(* and normalize_ip.  An address is its text split at the dots: a sequence *)
(* of octet texts, each a sequence of characters; the characters 0..9 are  *)
(* the digits and NonDigit is any other character.                         *)
(***************************************************************************)
NonDigit == 10

\* int(part) for a text of digits
RECURSIVE OctetValue(_)
OctetValue(part) ==
    IF part = << >> THEN 0
    ELSE 10 * OctetValue(SubSeq(part, 1, Len(part) - 1)) + part[Len(part)]

\* part.isdigit(): not empty and digits only
isdigit(part) == part # << >> /\ \A i \in 1..Len(part) : part[i] \in 0..9

\* is_valid_ip: 4 parts, each of digits and in 0..255
is_valid_ip(ip) ==
    /\ Len(ip) = 4
    /\ \A i \in 1..Len(ip) : isdigit(ip[i]) /\ OctetValue(ip[i]) \in 0..255

\* is_valid_port: 1..65535
is_valid_port(port) == port >= 1 /\ port <= 65535

\* octet.lstrip("0")
RECURSIVE lstrip0(_)
lstrip0(octet) ==
    IF octet = << >> THEN << >>
    ELSE IF Head(octet) = 0 THEN lstrip0(Tail(octet))
    ELSE octet

\* normalize_ip that keeps every octet as written.
normalize_ip_AsWritten(ip_address) == ip_address

\* normalize_ip: `octet.lstrip("0") or "0"` for every octet
normalize_ip(ip_address) ==
    [i \in 1..Len(ip_address) |->
        IF lstrip0(ip_address[i]) = << >> THEN << 0 >> ELSE lstrip0(ip_address[i])]

\* AHealthyIp.__init__, making the instance `id`: ValueError for an invalid
\* address or port, else the normalized address, the port and the flag.
AHealthyIp(ip, health_port, is_healthy, id) ==
    IF ~is_valid_ip(ip) \/ ~is_valid_port(health_port) THEN NoInstance
    ELSE [ok |-> TRUE, id |-> id, ip |-> normalize_ip(ip),
          health_port |-> health_port, is_healthy |-> is_healthy]

\* AHealthyIp.updated_status: self when the flag is the same, else a new
\* instance `id`.
AHealthyIp_updated_status(self, is_healthy, id) ==
    IF is_healthy = self.is_healthy THEN self
    ELSE AHealthyIp(self.ip, self.health_port, is_healthy, id)

\* AHealthyIp.__eq__ and the tuple __hash__ hashes
AHealthyIp_eq(self, other) ==
    /\ self.ip = other.ip
    /\ self.health_port = other.health_port
    /\ self.is_healthy = other.is_healthy

AHealthyIp_hash(self) == << self.ip, self.health_port, self.is_healthy >>

\* Texts an address is given as: 192.168.x.y with x, y written with and
\* without leading zeros, and texts is_valid_ip rejects.
IpTexts ==
    { << << 1, 9, 2 >>, << 1, 6, 8 >>, x, y >> :
         x \in { << 1 >>, << 0, 0, 1 >>, << 0 >>, << 0, 0, 0 >> },
         y \in { << 1 >>, << 0, 1 >>, << 2 >> } }
    \cup { << << 1, 9, 2 >>, << 1, 6, 8 >>, << 1 >> >>,
           << << 1, 9, 2 >>, << 1, 6, 8 >>, << 1 >>, << 2, 5, 6 >> >>,
           << << 1, 9, 2 >>, << 1, 6, 8 >>, << >>, << 1 >> >>,
           << << 1, 9, 2 >>, << 1, 6, 8 >>, << 1 >>, << NonDigit >> >> }

HealthPorts == {HealthPort, HealthPort + 1, 0}

IpArgs ==
    {[ip |-> ip, health_port |-> p, is_healthy |-> h] :
        ip \in IpTexts, p \in HealthPorts, h \in BOOLEAN}

IpInit ==
    /\ UpdaterAtConstruction
    /\ config_call = NoConfigCall
    /\ serial_source = NoSerialSource
    /\ timings = NoTimings
    /\ interval = NoInterval
    /\ ip_call \in {[NoIpCall EXCEPT !.a = a, !.b = b] : a \in IpArgs, b \in IpArgs}

\* Two AHealthyIp are constructed and, when both exist, compared and hashed.
NewHealthyIps ==
    /\ ~ip_call.called
    /\ LET first == AHealthyIp(ip_call.a.ip, ip_call.a.health_port,
                               ip_call.a.is_healthy, 1)
           second == AHealthyIp(ip_call.b.ip, ip_call.b.health_port,
                                ip_call.b.is_healthy, 2)
       IN ip_call' = [ip_call EXCEPT
             !.called = TRUE,
             !.first = first,
             !.second = second,
             !.equal = first.ok /\ second.ok /\ AHealthyIp_eq(first, second),
             !.hash_equal = first.ok /\ second.ok
                            /\ AHealthyIp_hash(first) = AHealthyIp_hash(second)]
    /\ UNCHANGED << UpdaterVars, aliases, handler, relativized,
                    config_call, serial_source, timings, interval >>

\* first.updated_status(flag)
UpdatedStatus ==
    /\ ip_call.called
    /\ ip_call.first.ok
    /\ ~ip_call.updated_called
    /\ \E flag \in BOOLEAN :
          ip_call' = [ip_call EXCEPT
             !.updated_called = TRUE,
             !.flag = flag,
             !.updated = AHealthyIp_updated_status(ip_call.first, flag, 3)]
    /\ UNCHANGED << UpdaterVars, aliases, handler, relativized,
                    config_call, serial_source, timings, interval >>

IpNext == NewHealthyIps \/ UpdatedStatus

IpSpec == IpInit /\ [][IpNext]_vars

(***************************************************************************)
(* The updater once the signatures of start() have reached their           *)
(* expiration: start() signed at StartTime, and every pass since found the *)
(* flags it had left and no signature due.                                 *)
(***************************************************************************)
ExpiryInit ==
    /\ do_sign = TRUE
    /\ now = StartTime + calculate_rrsig_lifetime(max_interval).expiration
    /\ \E healthy \in HealthySets :
          /\ a_recs = ARecsWith(healthy)
          /\ zone = PublishedZone(a_recs, StartTime)
    /\ rrsig_resign = iter_rrsig_key(StartTime).resign
    /\ stop_event = FALSE
    /\ updater_thread = 1
    /\ workers = [t \in Threads |->
                     IF t = 1 THEN [NoWorker EXCEPT !.pc = "loop"] ELSE NoWorker]
    /\ main_pc = "idle"
    /\ reader_apex = {}
    /\ pre_rebuild_zone = {}
    /\ last_rebuild_serial = StartTime
    /\ stop_result = "none"
    /\ join_deadline = 0
    /\ aliases = << >>
    /\ handler = HandlerIdle
    /\ relativized = NoRelativize
    /\ HelpersIdle

\* The clock stands still while the threads run.
ExpiryNext ==
    \/ CallStart
    \/ StartCheck
    \/ StartTxn1
    \/ StartTxn2
    \/ StartClear
    \/ StartSpawn
    \/ StopCheck
    \/ StopJoin
    \/ Worker

ExpirySpec == ExpiryInit /\ [][ExpiryNext]_vars

(***************************************************************************)
(* Properties                                                              *)
(***************************************************************************)
ARRsets(z, subdomain) == {r \in z : r.name = subdomain /\ r.rdtype = "A"}
Node(z, name) == {r \in z : r.name = name}

\* C1: at the end of a pass that probed the IPs and was not aborted, every
\* subdomain's A RRset in the published zone holds exactly the addresses
\* whose probe succeeded, a subdomain with no such address has no node, and
\* no published RRset is ever empty.
C1_ZoneHoldsHealthyIps ==
    /\ \A r \in zone : r.items # {}
    /\ \A t \in Threads :
         (workers[t].pc = "sleep" /\ ~workers[t].aborted) =>
            \A i \in 1..Len(ConfigIps) :
               LET succeeded == {ip \in ConfigIps[i] : workers[t].pass_probe[ip] = "ok"}
                   rrsets == ARRsets(zone, ConfigSubdomains[i])
               IN IF succeeded = {}
                  THEN Node(zone, ConfigSubdomains[i]) = {}
                  ELSE /\ Cardinality(rrsets) = 1
                       /\ \A r \in rrsets : r.items = succeeded

C1_Witness ==
    \E t \in Threads :
       /\ workers[t].pc = "sleep" /\ ~workers[t].aborted
       /\ workers[t].pass_probe = (1 :> "ok" @@ 2 :> "fail" @@ 3 :> "fail")
       /\ \E r \in ARRsets(zone, "www") : r.items = {1}
       /\ Node(zone, "api") = {}

\* C2: with DNSSEC configured, a reader never gets a version whose apex
\* holds the rebuilt NS/SOA records without DNSKEY, NSEC and RRSIG.
C2_ReaderSeesWholeRebuild ==
    do_sign => (reader_apex = {} \/ DnssecTypes \subseteq reader_apex)

RebuildSucceeds ==
    \/ main_pc = "start_txn2" /\ main_pc' = "start_clear"
    \/ \E t \in Threads : workers[t].pc = "txn2" /\ workers'[t].pc = "sleep"

\* C3: the SOA serial a successful rebuild publishes is strictly greater
\* than the serial the previous successful rebuild published.
C3_SerialStrictlyIncreases ==
    [][RebuildSucceeds =>
          (last_rebuild_serial = 0 \/ SoaSerial(zone') > last_rebuild_serial)]_vars

RefreshReturns(t) ==
    workers[t].pc = "rec_check" /\ workers'[t].pc \in {"txn1", "sleep"}

\* C4: when a refresh in which the abort signal was seen returns, a_recs is
\* the list the pass started with.
C4_AbortedPassKeepsARecs ==
    [][\A t \in Threads :
          (RefreshReturns(t) /\ workers'[t].aborted) => a_recs' = a_recs]_vars

\* C5: a pass whose refresh was aborted publishes no new zone version.
C5_AbortedPassKeepsZone ==
    [][(\E t \in Threads : workers[t].aborted) => zone' = zone]_vars

SignerRaises ==
    \/ main_pc = "start_txn2" /\ main_pc' = "idle"
    \/ \E t \in Threads : workers[t].pc = "txn2" /\ workers'[t].pc = "crashed"

\* C6: when the signer raises during a rebuild, the published zone is the
\* one published before that rebuild began.
C6_SignerErrorKeepsZone ==
    [][SignerRaises => zone' = pre_rebuild_zone]_vars

\* C7: an exception raised by a pass never ends the worker thread.
C7_WorkerSurvivesErrors ==
    \A t \in Threads : workers[t].pc # "crashed"

\* C8: at most one worker thread is alive, and while start() runs its
\* synchronous initialization no worker is alive.
C8_OneWriter ==
    /\ Cardinality({t \in Threads : is_alive(t)}) <= 1
    /\ main_pc \in {"start_txn1", "start_txn2"} => \A t \in Threads : ~is_alive(t)

C8_Witness ==
    /\ main_pc = "start_txn2"
    /\ workers[1].pc = "done"
    /\ stop_event

\* C9: once the stop flag is set the worker begins no probe other than one
\* whose abort check it had already passed, starts no new pass, and ends
\* (a wait in progress returning early) provided every probe returns.
C9_StopEndsWorker ==
    /\ [][\A t \in Threads :
             (stop_event /\ workers[t].pc # "probe") => workers'[t].pc # "probe"]_vars
    /\ [][\A t \in Threads :
             (stop_event /\ workers[t].pc = "loop")
                => workers'[t].pc \in {"loop", "done"}]_vars
    /\ \A t \in Threads : (stop_event /\ is_alive(t)) ~> ~is_alive(t)

C9_Witness ==
    /\ stop_event
    /\ main_pc = "stop_join"
    /\ workers[1].pc = "done"

\* C10: start() called while the worker is alive returns without rebuilding
\* the zone, clearing the stop flag, or replacing or creating a thread.
C10_StartWhileRunningIsNoop ==
    [][(main_pc = "start_check" /\ main_pc' # main_pc /\ StartSeesRunning) =>
          /\ main_pc' = "idle"
          /\ UNCHANGED << zone, stop_event, updater_thread, workers, a_recs,
                          rrsig_resign >>]_vars

C10_Witness ==
    /\ main_pc = "start_check"
    /\ StartSeesRunning
    /\ stop_event

Unsigned(z) == {r \in z : r.rdtype \notin DnssecTypes}

\* The zone is the one a whole initialization from a_recs publishes.
Initialized ==
    /\ Unsigned(zone) = AddRecords(a_recs, SoaSerial(zone))
    /\ SoaSerial(zone) = last_rebuild_serial
    /\ do_sign => DnssecTypes \subseteq ApexTypes(zone)

\* C11: with no worker running, start() initializes the zone once (its two
\* writers, in order), then clears the stop flag, then creates the worker:
\* the flag is cleared and the thread created only after that publication,
\* and a worker's pass begins only with the zone published.
C11_StartOrder ==
    /\ [][(main_pc' = "start_txn1" /\ main_pc # "start_txn1")
            => (main_pc = "start_check" /\ ~StartSeesRunning /\ zone' = zone)]_vars
    /\ [][(main_pc' = "start_txn2" /\ main_pc # "start_txn2")
            => (main_pc = "start_txn1" /\ zone' = AddRecords(a_recs, now))]_vars
    /\ [][(main_pc' = "start_clear" /\ main_pc # "start_clear")
            => (main_pc = "start_txn2" /\ RebuildSucceeds)]_vars
    /\ [][(main_pc' # main_pc /\ zone' # zone)
            => main_pc \in {"start_txn1", "start_txn2"}]_vars
    /\ [][(stop_event /\ ~stop_event')
            => (main_pc = "start_clear" /\ main_pc' = "start_spawn" /\ Initialized
                /\ workers' = workers)]_vars
    /\ [][workers' # workers /\ main_pc' # main_pc
            => (/\ main_pc = "start_spawn" /\ main_pc' = "idle"
                /\ ~stop_event /\ Initialized /\ zone' = zone
                /\ updater_thread' = Created + 1
                /\ workers'[updater_thread'].pc = "loop")]_vars
    /\ [][\A t \in Threads :
             (workers[t].pc = "loop" /\ workers'[t].pc = "rec_check")
                => "SOA" \in ApexTypes(zone)]_vars

C11_Witness ==
    /\ main_pc = "idle"
    /\ updater_thread = 2
    /\ workers[2].pc = "rec_check"
    /\ ~stop_event
    /\ Initialized

\* C12: stop() with no live worker returns true and leaves the stop flag;
\* otherwise it sets the flag, joins once with a timeout of
\* connection_timeout + 1 seconds, and returns true exactly when the worker
\* has ended after the join, leaving a worker that has not ended running.
C12_StopResult ==
    /\ [][(StopSeesNotRunning /\ ~stop_event) => ~stop_event']_vars
    /\ [][(main_pc = "idle" /\ main_pc' = "idle" /\ stop_result' # stop_result)
            => (StopSeesNotRunning /\ stop_result' = "true"
                /\ stop_event' = stop_event)]_vars
    /\ [][(main_pc = "idle" /\ main_pc' = "stop_join")
            => (/\ ~StopSeesNotRunning
                /\ stop_event'
                /\ join_deadline' = now + ConnectionTimeout + 1
                /\ stop_result' = "none")]_vars
    /\ [][(main_pc = "stop_join" /\ main_pc' # main_pc)
            => (/\ main_pc' = "idle"
                /\ workers' = workers /\ updater_thread' = updater_thread
                /\ stop_result' = (IF is_alive(updater_thread) THEN "false" ELSE "true")
                /\ is_alive(updater_thread) => now >= join_deadline)]_vars

C12_Witness ==
    /\ stop_result = "false"
    /\ main_pc = "idle"
    /\ is_alive(updater_thread)
    /\ stop_event

Origins == {Primary} \cup alias_zones
Answered == handler.pc = "sent" /\ handler.datagram.kind = "question"
Finished == handler.pc \in {"sent", "dropped", "failed"}

\* C13: a query whose name has a node in the zone but no RRset of the
\* requested type is answered NOERROR with an empty answer.
C13_TypeNotFoundIsNoError ==
    (/\ Answered
     /\ handler.lookup.ok
     /\ get_node(zone, handler.lookup.name) # {}
     /\ get_rdataset(get_node(zone, handler.lookup.name),
                     handler.datagram.rdtype) = {})
    => (handler.response.rcode = "NOERROR" /\ handler.response.answer = {})

\* C14: a query whose name is under no origin is answered NXDOMAIN with an
\* empty answer and no reader is opened; a query under an origin whose
\* relative name (the one the handler looks up) has no node is answered
\* NXDOMAIN with an empty answer.
C14_UnknownNameIsNxdomain ==
    Answered =>
       /\ (\A o \in Origins : ~is_subdomain(handler.datagram.name, o))
            => (/\ handler.response.rcode = "NXDOMAIN"
                /\ handler.response.answer = {}
                /\ ~handler.reader_opened)
       /\ ((\E o \in Origins : is_subdomain(handler.datagram.name, o))
            /\ handler.lookup.ok /\ get_node(zone, handler.lookup.name) = {})
            => (/\ handler.response.rcode = "NXDOMAIN"
                /\ handler.response.answer = {})

C14_Witness ==
    /\ Answered
    /\ handler.datagram.name = << "www", "x", "" >>
    /\ handler.response.rcode = "NXDOMAIN"
    /\ ~handler.reader_opened
    /\ handler.sent = 1

\* C15: for every relative name R in the zone and every origin O, a query
\* for R under O with a type R holds is answered NOERROR with exactly one
\* RRset: owner the queried name, TTL and rdata those stored for R.
C15_AnswerUnderEveryOrigin ==
    Answered =>
       \A o \in Origins : \A r \in zone :
          (/\ handler.datagram.name = RelName(r.name) \o o
           /\ r.rdtype = handler.datagram.rdtype
           /\ r.covers = "")
          => (/\ handler.response.rcode = "NOERROR"
              /\ handler.response.answer =
                    {answer_rrset(handler.datagram.name, r)})

\* C16: a parsed datagram without a question is answered FORMERR with one
\* response and without consulting the zone.
C16_NoQuestionIsFormerr ==
    (Finished /\ handler.datagram.kind = "noquestion")
    => (/\ handler.sent = 1
        /\ handler.response.rcode = "FORMERR"
        /\ ~handler.reader_opened)

\* C17: a datagram that does not parse gets no response and the zone is not
\* touched; every datagram that parses gets exactly one response.
C17_OneResponsePerParsedDatagram ==
    Finished =>
       IF handler.datagram.kind = "garbage"
       THEN handler.sent = 0 /\ ~handler.reader_opened
       ELSE handler.sent = 1

\* C18: every response sent has the AA flag set, whatever its RCODE.
C18_ResponsesAreAuthoritative ==
    handler.sent > 0 =>
       /\ handler.response.made
       /\ handler.response.aa
       /\ handler.response.rcode \in {"NOERROR", "NXDOMAIN", "FORMERR"}

C18_Witness ==
    /\ handler.pc = "sent"
    /\ handler.response.rcode = "FORMERR"
    /\ handler.response.aa

\* C19: the relative name the handler looks up is the one
\* ZoneOrigins.relativize gives for the queried name: the name relativized
\* to the matching origin with the most labels, None when none matches.
C19_HandlerLooksUpRelativized ==
    Answered =>
       handler.lookup =
          relativize(ZoneOriginsInit(Primary, aliases), handler.datagram.name)

\* The matching origin with the most labels.
MostSpecific(matching) ==
    CHOOSE o \in matching : \A p \in matching : Len(p) <= Len(o)

\* C20: relativize returns a relative name unchanged, strips from an
\* absolute name the matching origin with the most labels (leaving the
\* empty name for an apex), returns None when no origin matches, and gives
\* the same result for every order of the aliases.
C20_RelativizeMostSpecific ==
    relativized.called =>
       LET name == relativized.name
           matching == {o \in Origins : is_subdomain(name, o)}
       IN /\ relativized.result =
                IF ~is_absolute(name) THEN Some(name)
                ELSE IF matching = {} THEN None
                ELSE Some(SubSeq(name, 1,
                                 Len(name) - Len(MostSpecific(matching))))
          /\ \A other \in AliasLists :
                SeqToSet(other) = alias_zones
                   => relativize(ZoneOriginsInit(Primary, other), name)
                         = relativized.result

C20_Witness ==
    /\ relativized.called
    /\ aliases = << << "e", "" >>, << "www", "z", "e", "" >> >>
    /\ relativized.name = << "www", "www", "z", "e", "" >>
    /\ relativized.result = Some(<< "www" >>)


(***************************************************************************)
(* Configuration                                                           *)
(***************************************************************************)
\* Two of the origins overlap: one of them lies under another.
Overlapping(names) ==
    \E a \in names : \E b \in names \ {a} : is_subdomain(a, b)

SuppliedOrigins(args) ==
    {e.name : e \in {f \in {args.zone} \cup SeqToSet(args.alias_zones.entries) :
                        f.valid}}

\* C21: origins that overlap (an alias under the primary, the primary under
\* an alias, an alias under another alias) are rejected: ZoneOrigins is not
\* constructed from them and make_config returns no configuration.
C21_OverlappingOriginsRejected ==
    (config_call.called /\ Overlapping(SuppliedOrigins(config_call.args)))
        => (~config_call.config.ok /\ ~config_call.origins.ok)

\* The alias argument is given and is no list of valid subdomains.
InvalidAliasArgument(args) ==
    \/ args.alias_zones.kind \in {"invalid_json", "not_a_list"}
    \/ \E i \in 1..Len(args.alias_zones.entries) :
          ~args.alias_zones.entries[i].valid

\* C22: make_config returns no configuration when alias_zones is no valid
\* JSON, is no list, or holds an invalid entry; it never drops a bad alias
\* argument silently.
C22_InvalidAliasesRejected ==
    (config_call.called /\ InvalidAliasArgument(config_call.args))
        => ~config_call.config.ok

(***************************************************************************)
(* First start, signing, idempotence                                       *)
(***************************************************************************)
\* No subdomain of the configuration has a node, and there is no A RRset.
NoAddress(z) ==
    /\ \A i \in 1..Len(ConfigSubdomains) : get_node(z, << ConfigSubdomains[i] >>) = {}
    /\ \A r \in z : r.rdtype # "A"

\* C23: the synchronous initialization of start() attempts no probe and
\* changes no health flag; before any worker exists every address is
\* unhealthy and the published zone has NS and SOA at the apex and no A
\* RRset; and a lookup of a configured subdomain finds no node until a
\* worker, its refresh returned, rebuilds the zone.
C23_FirstZoneHasNoAddress ==
    /\ [][main_pc' # main_pc
            => (/\ a_recs' = a_recs
                /\ \A t \in Threads :
                      /\ workers'[t].pass_probe = workers[t].pass_probe
                      /\ workers'[t].updated = workers[t].updated
                      /\ workers'[t].pc = "probe" => workers[t].pc = "probe")]_vars
    /\ [](Created = 0
            => (/\ a_recs = InitialARecs
                /\ \A i \in 1..Len(a_recs) : HealthyAddresses(a_recs[i]) = {}
                /\ zone # {} => (NoAddress(zone)
                                 /\ {"NS", "SOA"} \subseteq ApexTypes(zone))))
    /\ [][(NoAddress(zone) /\ ~NoAddress(zone'))
            => \E t \in Threads : workers[t].pc = "txn1"]_vars
    /\ [][\A t \in Threads :
            (workers'[t].pc = "txn1" /\ workers[t].pc # "txn1")
                => RefreshReturns(t)]_vars

C23_Witness ==
    /\ Created = 1
    /\ workers[1].pc = "probe"
    /\ workers[1].pass_probe[1] = "ok"
    /\ a_recs = InitialARecs
    /\ NoAddress(zone)
    /\ {"NS", "SOA"} \subseteq ApexTypes(zone)

Rrsigs(z) == {r \in z : r.rdtype = "RRSIG"}

\* C24: with a key configured, the re-sign time is the epoch until a rebuild
\* has succeeded and the rebuild of start() signs the zone; a pass that was
\* not aborted and whose refresh returns at or after the re-sign time
\* rebuilds, and when its signer succeeds the zone is signed anew, every
\* new RRSIG expiring strictly later than every RRSIG of the version before
\* and the re-sign time moving strictly later.
C24_ResignWhenDue ==
    /\ []((do_sign /\ last_rebuild_serial = 0) => rrsig_resign = 0)
    /\ [][(do_sign /\ main_pc = "start_txn2" /\ main_pc' = "start_clear")
            => (/\ Rrsigs(zone) = {}
                /\ DnssecTypes \subseteq ApexTypes(zone')
                /\ \A r \in Rrsigs(zone') : r.expiration > now
                /\ rrsig_resign' > now)]_vars
    /\ [][\A t \in Threads :
            (RefreshReturns(t) /\ ~workers'[t].aborted
             /\ do_sign /\ now >= rrsig_resign)
                => workers'[t].pc = "txn1"]_vars
    /\ [][\A t \in Threads :
            (workers[t].pc = "txn2" /\ workers'[t].pc = "sleep"
             /\ do_sign /\ now >= rrsig_resign)
                => (/\ DnssecTypes \subseteq ApexTypes(zone')
                    /\ \A new \in Rrsigs(zone') : \A old \in Rrsigs(pre_rebuild_zone) :
                          new.expiration > old.expiration
                    /\ rrsig_resign' > rrsig_resign)]_vars

C24_Witness ==
    /\ do_sign
    /\ Created = 1
    /\ workers[1].pc = "sleep"
    /\ ~workers[1].aborted
    /\ now = StartTime + LongStep
    /\ Rrsigs(zone) # {}
    /\ \A r \in Rrsigs(zone) : r.inception = now
    /\ rrsig_resign = now + LongStep

\* The refresh of worker t returns un-aborted with every probe outcome equal
\* to the flag it found: the outcomes of the pass before, once more.
SameOutcomes(t) ==
    /\ RefreshReturns(t)
    /\ ~workers'[t].aborted
    /\ workers[t].checked = a_recs

NonSoa(z) == {r \in Unsigned(z) : r.rdtype # "SOA"}

\* C25 as stated: a pass that was not aborted and whose probe outcomes are
\* those of the pass before leaves the zone as it was but for the SOA
\* serial, which is greater than before the pass.
C25_SameOutcomesIncreaseSerial ==
    [][\A t \in Threads :
          (SameOutcomes(t) /\ workers'[t].pc = "sleep")
             => (/\ NonSoa(zone') = NonSoa(zone)
                 /\ SoaSerial(zone') > SoaSerial(zone))]_vars

\* The A RRsets of z are the ones a rebuild from recs publishes.
AddressesInSync(z, recs) ==
    {r \in z : r.rdtype = "A"} = UNION {AddARecord(recs[i]) : i \in 1..Len(recs)}

\* C25, amended: a pass that was not aborted and whose probe outcomes are
\* those of the pass before changes neither a_recs nor, when its refresh
\* returns, the zone; it goes on to rebuild exactly when a signature is due,
\* and a worker's rebuild from addresses the zone already shows leaves the
\* NS and A RRsets as they were and does not lower the SOA serial.
C25_SameOutcomesKeepContents ==
    /\ [][\A t \in Threads :
            SameOutcomes(t)
               => (/\ a_recs' = a_recs
                   /\ zone' = zone
                   /\ workers'[t].pc = "txn1" <=> (do_sign /\ now >= rrsig_resign))]_vars
    /\ [][\A t \in Threads :
            (workers[t].pc = "txn1" /\ workers'[t].pc = "txn2"
             /\ zone # {} /\ AddressesInSync(zone, a_recs))
               => (/\ NonSoa(zone') = NonSoa(zone)
                   /\ SoaSerial(zone') >= SoaSerial(zone))]_vars

C25_Witness ==
    /\ do_sign
    /\ \E t \in Threads :
         /\ workers[t].pc = "txn2"
         /\ ~workers[t].aborted
         /\ workers[t].pass_probe = [ip \in AllIps |-> IF ip = 1 THEN "ok" ELSE "fail"]
    /\ HealthyAddresses(a_recs[1]) = {1}
    /\ \E r \in ARRsets(pre_rebuild_zone, "www") : r.items = {1}
    /\ NonSoa(zone) = NonSoa(pre_rebuild_zone)
    /\ SoaSerial(zone) > SoaSerial(pre_rebuild_zone)

\* C26: a pass that was not aborted, in which no health flag changed and at
\* whose end no signature is due, leaves the zone, its SOA serial included,
\* the re-sign time and a_recs unchanged and is over without a rebuild.
C26_NoChangeNoRebuild ==
    [][\A t \in Threads :
          (SameOutcomes(t) /\ ~(do_sign /\ now >= rrsig_resign))
             => (/\ workers'[t].pc = "sleep"
                 /\ zone' = zone
                 /\ SoaSerial(zone') = SoaSerial(zone)
                 /\ rrsig_resign' = rrsig_resign
                 /\ last_rebuild_serial' = last_rebuild_serial
                 /\ a_recs' = a_recs)]_vars

C26_Witness ==
    /\ zone # {}
    /\ \E t \in Threads :
         /\ workers[t].pc = "sleep"
         /\ ~workers[t].aborted
         /\ \A ip \in AllIps : workers[t].pass_probe[ip] # "none"
         /\ workers[t].pass_probe[1] = "ok"
         /\ workers[t].start_time > SoaSerial(zone)
    /\ HealthyAddresses(a_recs[1]) = {1}
    /\ \E r \in ARRsets(zone, "www") : r.items = {1}

(***************************************************************************)
(* Serial source, timing, HealthyIp                                        *)
(***************************************************************************)
\* C27: the SOA serial source never raises for a request in the second of
\* the request before and never yields a value twice: every value it
\* yields is strictly larger than the one before.
C27_SameSecondRequestWaits ==
    /\ serial_source.state # "raised"
    /\ \A i \in 1..Len(serial_source.yielded) : \A j \in 1..Len(serial_source.yielded) :
          i < j => serial_source.yielded[i] < serial_source.yielded[j]

RECURSIVE SumOfCardinalities(_, _)
SumOfCardinalities(ipsets, i) ==
    IF i > Len(ipsets) THEN 0
    ELSE Cardinality(ipsets[i]) + SumOfCardinalities(ipsets, i + 1)

\* C29: max_interval is the larger of min_interval and the sum over the A
\* records of number_of_ips * connection_timeout + 1 + (2 when signing); it
\* is at least min_interval and at least the time of a pass in which every
\* probe takes the whole connection_timeout.
C29_MaxIntervalCoversPass ==
    interval.called =>
       LET probes == SumOfCardinalities(interval.ipsets, 1) * interval.connection_timeout
           overhead == Len(interval.ipsets) * (1 + (IF interval.sign THEN 2 ELSE 0))
       IN /\ interval.result >= interval.min_interval
          /\ interval.result >= probes
          /\ interval.result >= probes + overhead
          /\ interval.result \in {interval.min_interval, probes + overhead}

C29_Witness ==
    /\ interval.called
    /\ interval.sign
    /\ interval.ipsets = << {1, 2}, {1}, {3} >>
    /\ interval.connection_timeout = 2
    /\ interval.min_interval = 10
    /\ interval.result = 17

\* The two texts name the same address: octet by octet the same number.
SameAddress(ip, other) ==
    /\ Len(ip) = Len(other)
    /\ \A i \in 1..Len(ip) : OctetValue(ip[i]) = OctetValue(other[i])

\* C30: two HealthyIp are equal exactly when their addresses are the same
\* once leading zeros are set aside and their ports and flags are equal,
\* and equal ones hash equally; the address held has no leading zeros; and
\* updated_status gives a value equal to the original but for the flag: the
\* same instance when the flag is unchanged, a new one otherwise.
C30_EqualityIgnoresLeadingZeros ==
    /\ (ip_call.called /\ ip_call.first.ok /\ ip_call.second.ok) =>
          /\ ip_call.equal <=>
                (/\ SameAddress(ip_call.a.ip, ip_call.b.ip)
                 /\ ip_call.a.health_port = ip_call.b.health_port
                 /\ ip_call.a.is_healthy = ip_call.b.is_healthy)
          /\ ip_call.equal => ip_call.hash_equal
          /\ \A i \in 1..4 :
                /\ ip_call.first.ip[i] # << >>
                /\ Len(ip_call.first.ip[i]) > 1 => Head(ip_call.first.ip[i]) # 0
                /\ OctetValue(ip_call.first.ip[i]) = OctetValue(ip_call.a.ip[i])
    /\ ip_call.updated_called =>
          /\ ip_call.updated.ok
          /\ ip_call.updated.ip = ip_call.first.ip
          /\ ip_call.updated.health_port = ip_call.first.health_port
          /\ ip_call.updated.is_healthy = ip_call.flag
          /\ (ip_call.flag = ip_call.first.is_healthy)
                <=> (ip_call.updated.id = ip_call.first.id)

C30_Witness ==
    /\ ip_call.called
    /\ ip_call.a.ip = << << 1, 9, 2 >>, << 1, 6, 8 >>, << 0, 0, 1 >>, << 0, 1 >> >>
    /\ ip_call.b.ip = << << 1, 9, 2 >>, << 1, 6, 8 >>, << 1 >>, << 1 >> >>
    /\ ip_call.equal
    /\ ip_call.hash_equal
    /\ ip_call.updated_called
    /\ ip_call.updated.id = ip_call.first.id

(***************************************************************************)
(* The rebuild decision, signer errors, signature times, the worker's wait *)
(***************************************************************************)
\* C31: when the refresh of a pass that was not aborted returns, the pass
\* goes on to rebuild if and only if a health flag changed in it, or a key
\* is configured and the re-sign time has come, or the zone was never
\* built; a pass that does not rebuild leaves the zone as it was; and the
\* zone changes only in the rebuild steps of start() and of a worker's
\* _update_zone.
C31_RebuildIffChangedOrDue ==
    /\ [][\A t \in Threads :
            (RefreshReturns(t) /\ ~workers'[t].aborted)
               => (/\ workers'[t].pc = "txn1"
                        <=> (\/ a_recs' # a_recs
                             \/ (do_sign /\ now >= rrsig_resign)
                             \/ zone = {})
                   /\ zone' = zone)]_vars
    /\ [][\A t \in Threads :
            (workers[t].pc = "sleep" /\ workers'[t].pc # "sleep") => zone' = zone]_vars
    /\ [][zone' # zone
            => (\/ main_pc \in {"start_txn1", "start_txn2"} /\ main_pc' # main_pc
                \/ \E t \in Threads :
                      /\ workers[t].pc \in {"txn1", "txn2"}
                      /\ workers'[t].pc # workers[t].pc)]_vars

C31_Witness ==
    /\ ~do_sign
    /\ \E t \in Threads :
         /\ workers[t].pc = "txn1"
         /\ ~workers[t].aborted
         /\ workers[t].pass_probe[1] = "ok"
    /\ 1 \in HealthyAddresses(a_recs[1])
    /\ ARRsets(zone, "www") = {}
    /\ {"NS", "SOA"} \subseteq ApexTypes(zone)

\* C32: when the signer raises during a rebuild the re-sign time keeps its
\* value, the worker whose rebuild it was goes on to its next pass, and a
\* pass that was not aborted and finds the zone unsigned rebuilds.
C32_SignerErrorRetriedNextPass ==
    /\ [][SignerRaises => rrsig_resign' = rrsig_resign]_vars
    /\ [][\A t \in Threads :
            (workers[t].pc = "txn2" /\ workers'[t].pc # "txn2")
               => workers'[t].pc = "sleep"]_vars
    /\ [][\A t \in Threads :
            (RefreshReturns(t) /\ ~workers'[t].aborted
             /\ do_sign /\ Rrsigs(zone) = {})
               => workers'[t].pc = "txn1"]_vars

\* C33: a signing at time t gives every RRSIG inception t and expiration
\* t + rrsig expiration offset and sets the re-sign time to t + rrsig
\* resign offset, strictly after the inception and strictly before the
\* expiration.
C33_ResignBeforeExpiration ==
    [][(do_sign /\ RebuildSucceeds)
         => LET lifetime == calculate_rrsig_lifetime(max_interval)
            IN /\ Rrsigs(zone') # {}
               /\ \A r \in Rrsigs(zone') :
                     /\ r.inception = now
                     /\ r.expiration = now + lifetime.expiration
                     /\ r.inception < rrsig_resign'
                     /\ rrsig_resign' < r.expiration
               /\ rrsig_resign' = now + lifetime.resign]_vars

C35_HandlerLeavesZoneAlone ==
    /\ [][handler' # handler => UNCHANGED UpdaterVars]_vars
    /\ [][(handler'.reader_opened /\ ~handler.reader_opened)
            => (/\ handler.pc = "respond"
                /\ handler'.pc = "send"
                /\ handler.datagram.kind = "question")]_vars
    /\ [][(handler.reader_opened /\ handler'.pc # "received")
            => (handler'.reader_opened /\ handler'.pc = "sent")]_vars

C35_Witness ==
    /\ handler.pc = "sent"
    /\ handler.reader_opened
    /\ handler.datagram.rdtype = "A"
    /\ handler.response.answer # {}
    /\ zone # {}

\* C36: with a key configured, a pass that was not aborted and ends without
\* a rebuild leaves no RRSIG in the published zone whose expiration has
\* passed.
C36_NoExpiredSignatureAfterPass ==
    [][\A t \in Threads :
          (RefreshReturns(t) /\ ~workers'[t].aborted /\ workers'[t].pc = "sleep")
             => \A r \in Rrsigs(zone') : r.expiration > now]_vars

\* C37: every published zone holds exactly one NS RRset and exactly one SOA
\* RRset at the apex, and an SOA or NS query for the apex of an origin is
\* not answered NXDOMAIN.
C37_ApexNsSoaAlwaysAnswered ==
    /\ \A ty \in {"NS", "SOA"} :
          Cardinality({r \in zone : r.name = Apex /\ r.rdtype = ty}) = 1
    /\ (/\ Answered
        /\ handler.datagram.name \in Origins
        /\ handler.datagram.rdtype \in {"NS", "SOA"})
          => handler.response.rcode # "NXDOMAIN"

\* C38: when start() returns, the updater's thread is alive and the stop
\* flag is clear, so that the worker goes on with its passes.
C38_StartLeavesWorkerRunning ==
    [][(main_pc \in {"start_check", "start_spawn"} /\ main_pc' = "idle")
         => (/\ updater_thread' # 0
             /\ workers'[updater_thread'].pc \notin {"unborn", "done", "crashed"}
             /\ ~stop_event')]_vars

\* C39: a_recs always lists the configured subdomains in the configured
\* order, and the IPs of each record are, flags aside, exactly the
\* configured (ip, health_port) pairs, each of them once.
C39_ARecsKeepConfiguredIps ==
    /\ Len(a_recs) = Len(ConfigIps)
    /\ \A i \in 1..Len(a_recs) :
         /\ a_recs[i].subdomain = ConfigSubdomains[i]
         /\ {<< h.ip, h.health_port >> : h \in a_recs[i].healthy_ips}
               = {<< ip, HealthPort >> : ip \in ConfigIps[i]}
         /\ Cardinality(a_recs[i].healthy_ips) = Cardinality(ConfigIps[i])

C39_Witness ==
    /\ HealthyAddresses(a_recs[1]) = {1}
    /\ HealthyAddresses(a_recs[2]) = {}
    /\ \E t \in Threads : workers[t].pc = "sleep" /\ workers[t].aborted
    /\ \E r \in ARRsets(zone, "www") : r.items = {1}

=============================================================================
